---- MODULE Spec2Model ----
(***************************************************************************)
(* Post service of the InstagramClone FastAPI backend: the /upload, /feed   *)
(* and DELETE /posts/{post_id} handlers of app/app.py over the posts table  *)
(* declared in app/db.py.                                                   *)
(*                                                                          *)
(* The posts table lives in the SQLite file ./test.db, which outlives the   *)
(* process; create_db_and_tables only creates missing tables.  Init         *)
(* therefore draws the rows the file already holds from the rows the        *)
(* schema of app/db.py admits.                                              *)
(***************************************************************************)
EXTENDS Integers, Sequences, FiniteSets, TLC

VARIABLES posts, removed, tempFiles, up, del, feedPc, feed

vars == <<posts, removed, tempFiles, up, del, feedPc, feed>>

----------------------------------------------------------------------------
(* Bounds of the model *)

\* created_at values are drawn from 1..MaxTime
MaxTime == 2

Times == 1..MaxTime

----------------------------------------------------------------------------
(* Values *)

NULL == "NULL"

\* rows of the user table (owned by the identity provider, never changed here)
Users == {"u1"}

\* values uuid.uuid4 and the persisted rows draw their ids from
PostIds == {"p1", "p2", "p3"}

\* a path parameter that uuid.UUID() rejects
MalformedId == "not-a-uuid"

DeleteInputs == PostIds \cup {MalformedId}

\* declared file names, as character sequences
FileNames == { <<>>, <<"a">>, <<"a", ".", "j", "p", "g">> }

\* declared content types, as character sequences
VideoMp4 == <<"v", "i", "d", "e", "o", "/", "m", "p", "4">>
ImagePng == <<"i", "m", "a", "g", "e", "/", "p", "n", "g">>
VideoNoSlash == <<"v", "i", "d", "e", "o">>
VideosX == <<"v", "i", "d", "e", "o", "s", "/", "x">>

\* an optional value is a sequence of length 0 (None) or 1
None == <<>>
Some(x) == <<x>>

ContentTypes == {None, Some(VideoMp4), Some(ImagePng), Some(VideoNoSlash), Some(VideosX)}

Captions == {"hello", "bye"}

\* names tempfile.NamedTemporaryFile can pick
TempBases == {"tmp1", "tmp2"}

NoPath == [base |-> NULL, suffix |-> ""]

\* what imagekit.upload_file can give back: a response envelope, or an exception
NoUpload == [kind |-> "none", status |-> 0, url |-> NULL, name |-> NULL]
GatewayRaises == [kind |-> "raise", status |-> 0, url |-> NULL, name |-> NULL]
GatewayResponses ==
    { [kind |-> "response", status |-> 200, url |-> "https://cdn/x.jpg", name |-> "x_abc.jpg"],
      [kind |-> "response", status |-> 200, url |-> "https://cdn/y.mp4", name |-> "y_def.mp4"],
      [kind |-> "response", status |-> 400, url |-> NULL, name |-> NULL] }

\* exceptions: class, status code (HTTPException only) and message
NoExc == [cls |-> "", code |-> 0, msg |-> ""]
Exc(cls, msg) == [cls |-> cls, code |-> 0, msg |-> msg]
HTTPException(code, detail) == [cls |-> "HTTPException", code |-> code, msg |-> detail]

\* str(e): starlette renders an HTTPException as "<status_code>: <detail>",
\* any other exception as its message
StrOf(e) == [code |-> e.code, msg |-> e.msg]
NoDetail == [code |-> 0, msg |-> ""]

----------------------------------------------------------------------------
(* The posts table *)

\* Column(..., nullable=False) of Post, and the primary key
PostConstraintsLax(row, store) == \A p \in store : p.id # row.id

PostConstraints(row, store) ==
    /\ \A p \in store : p.id # row.id
    /\ row.user_id # NULL
    /\ row.url # NULL
    /\ row.file_type # NULL
    /\ row.file_name # NULL
    /\ row.created_at # 0

\* rows test.db can hold when the process starts (updated_at, which no
\* handler reads except to print it, is left out of the rows)
PersistedRow(i, t) ==
    [id |-> i, user_id |-> "u1", caption |-> "old", url |-> "https://cdn/old.jpg",
     file_type |-> "image", file_name |-> "old.jpg", created_at |-> t]

Ids(store) == {p.id : p \in store}

\* values uuid.uuid4 returns: never an id the table holds or has held
Uuid4Ids == {"n1", "n2"}

----------------------------------------------------------------------------
(* upload_file: pure parts *)

StartsWith(s, prefix) ==
    /\ Len(s) >= Len(prefix)
    /\ SubSeq(s, 1, Len(prefix)) = prefix

\* "video" if file.content_type.startswith("video/") else "image"
FileTypeNoSlash(content_type) ==
    IF StartsWith(content_type, <<"v", "i", "d", "e", "o">>) THEN "video" ELSE "image"

FileType(content_type) ==
    IF StartsWith(content_type, <<"v", "i", "d", "e", "o", "/">>) THEN "video" ELSE "image"

\* Post(caption=..., url=..., file_type=..., file_name=...): user_id is not given
NewPost(caption, upload_result, content_type) ==
    [id |-> NULL, user_id |-> NULL, caption |-> caption, url |-> upload_result.url,
     file_type |-> FileType(content_type), file_name |-> upload_result.name,
     created_at |-> 0]

\* the column defaults applied when the INSERT is flushed: id and created_at
WithDefaults(post, i, t) == [post EXCEPT !.id = i, !.created_at = t]

\* upload_result.response_metadata.http_status_code == 200
StatusOkAlways(upload_result) == TRUE

StatusOk(upload_result) == upload_result.status = 200

\* session.add(post); await session.commit(): the row is stored, or the
\* INSERT raises IntegrityError and nothing is stored
CommitPartial(store, row) ==
    [ok |-> PostConstraints(row, store), store |-> store \cup {row}]

Commit(store, row) ==
    IF PostConstraints(row, store)
    THEN [ok |-> TRUE, store |-> store \cup {row}]
    ELSE [ok |-> FALSE, store |-> store]

\* finally: unlink the staging file if one was created and still exists
FinallyFilesOnSuccess(u, files) ==
    IF u.exc = NoExc /\ u.temp_file_path # NoPath /\ u.temp_file_path \in files
    THEN files \ {u.temp_file_path}
    ELSE files

FinallyFiles(u, files) ==
    IF u.temp_file_path # NoPath /\ u.temp_file_path \in files
    THEN files \ {u.temp_file_path}
    ELSE files

\* except Exception as e: raise HTTPException(status_code=500, detail=str(e))
ErrorResponse(e) == [status |-> 500, body |-> {}, detail |-> StrOf(e)]

NoResponse == [status |-> 0, body |-> {}, detail |-> NoDetail]

\* return post: the row, serialized with status 200
PostResponse(row) == [status |-> 200, body |-> {row}, detail |-> NoDetail]

\* the function ends without a return: FastAPI answers 200 with a null body
NullResponse == [status |-> 200, body |-> {}, detail |-> NoDetail]

----------------------------------------------------------------------------
(* upload_file: the request *)

IdleUp ==
    [pc |-> "idle", filename |-> <<>>, content_type |-> None, caption |-> "",
     temp_file_path |-> NoPath, streamOpen |-> FALSE, upload_result |-> NoUpload,
     post |-> {}, exc |-> NoExc, result |-> NoResponse, trace |-> <<>>,
     added |-> {}, idsBefore |-> {}]

\* a request arrives; temp_file_path = None
UploadReceive(fn, ct, cap) ==
    /\ up.pc = "idle"
    /\ up' = [IdleUp EXCEPT !.pc = "stage", !.filename = fn, !.content_type = ct,
                            !.caption = cap, !.streamOpen = TRUE]
    /\ UNCHANGED <<posts, removed, tempFiles, del, feedPc, feed>>

\* with NamedTemporaryFile(delete=False, suffix=file.filename[1]): copyfileobj
UploadStage ==
    /\ up.pc = "stage"
    /\ IF Len(up.filename) < 2
       THEN /\ up' = [up EXCEPT !.pc = "except",
                                !.exc = Exc("IndexError", "string index out of range")]
            /\ UNCHANGED tempFiles
       ELSE \E b \in TempBases, copied \in BOOLEAN :
              LET path == [base |-> b, suffix |-> up.filename[2]] IN
              /\ \A f \in tempFiles : f.base # b
              /\ tempFiles' = tempFiles \cup {path}
              /\ up' = [up EXCEPT !.temp_file_path = path,
                                  !.trace = Append(@, "stage"),
                                  !.pc = IF copied THEN "gateway" ELSE "except",
                                  !.exc = IF copied THEN NoExc
                                          ELSE Exc("OSError", "No space left on device")]
    /\ UNCHANGED <<posts, removed, del, feedPc, feed>>

\* upload_result = imagekit.upload_file(...)
UploadGateway ==
    /\ up.pc = "gateway"
    /\ \E g \in GatewayResponses \cup {GatewayRaises} :
         up' = [up EXCEPT !.trace = Append(@, "gateway"),
                          !.upload_result = g,
                          !.pc = IF g.kind = "raise" THEN "except" ELSE "check",
                          !.exc = IF g.kind = "raise"
                                  THEN Exc("GatewayError", "upload failed") ELSE NoExc]
    /\ UNCHANGED <<posts, removed, tempFiles, del, feedPc, feed>>

\* if status == 200: Post(...), session.add, commit, refresh, return post
\* (the refresh re-reads the row just committed and is part of this step)
UploadPersist ==
    /\ up.pc = "check"
    /\ IF ~StatusOk(up.upload_result)
       THEN /\ up' = [up EXCEPT !.pc = "finally", !.result = NullResponse]
            /\ UNCHANGED posts
       ELSE IF up.content_type = None
       THEN /\ up' = [up EXCEPT !.pc = "except",
                                !.exc = Exc("AttributeError", "no attribute startswith")]
            /\ UNCHANGED posts
       ELSE \E i \in Uuid4Ids \ (Ids(posts) \cup removed), t \in Times :
              LET post == NewPost(up.caption, up.upload_result, up.content_type[1])
                  row == WithDefaults(post, i, t)
                  c == Commit(posts, row)
              IN
              /\ posts' = c.store
              /\ up' = [up EXCEPT !.post = {post},
                                  !.trace = Append(@, "insert"),
                                  !.added = c.store \ posts,
                                  !.idsBefore = Ids(posts) \cup removed,
                                  !.pc = IF c.ok THEN "finally" ELSE "except",
                                  !.result = IF c.ok THEN PostResponse(row) ELSE NoResponse,
                                  !.exc = IF c.ok THEN NoExc
                                          ELSE Exc("IntegrityError", "constraint failed")]
    /\ UNCHANGED <<removed, tempFiles, del, feedPc, feed>>

\* except Exception as e: raise HTTPException(500, str(e))
UploadExcept ==
    /\ up.pc = "except"
    /\ up' = [up EXCEPT !.pc = "finally", !.result = ErrorResponse(up.exc)]
    /\ UNCHANGED <<posts, removed, tempFiles, del, feedPc, feed>>

\* finally: os.unlink(temp_file_path); file.file.close()
UploadFinally ==
    /\ up.pc = "finally"
    /\ tempFiles' = FinallyFiles(up, tempFiles)
    /\ up' = [up EXCEPT !.pc = "done", !.streamOpen = FALSE]
    /\ UNCHANGED <<posts, removed, del, feedPc, feed>>

\* the response has been sent; the handler is free for the next request
UploadRespond ==
    /\ up.pc = "done"
    /\ up' = IdleUp
    /\ UNCHANGED <<posts, removed, tempFiles, del, feedPc, feed>>

----------------------------------------------------------------------------
(* delete_post *)

\* requests served concurrently, each on its own session (get_async_session)
Deleters == {"d1", "d2"}

NoDeleteResponse == [status |-> 0, success |-> FALSE, detail |-> NoDetail]

\* {"success": True, "message": "Post deleted successfully"}
DeleteSuccess == [status |-> 200, success |-> TRUE, detail |-> NoDetail]

\* except Exception as e: raise HTTPException(status_code=500, detail=str(e))
\* (HTTPException is itself an Exception, so the 404 raised inside the try
\* block is caught here too)
DeleteError(e) == [status |-> 500, success |-> FALSE, detail |-> StrOf(e)]

IdleDel ==
    [pc |-> "idle", post_id |-> NULL, post |-> {}, result |-> NoDeleteResponse,
     existed |-> FALSE, rowcount |-> 0]

\* select(Post).where(Post.id == post_uuid) ... .first()
SelectById(store, i) == {p \in store : p.id = i}

\* a request arrives
DeleteReceive(d, i) ==
    /\ del[d].pc = "idle"
    /\ del' = [del EXCEPT ![d] = [IdleDel EXCEPT !.pc = "lookup", !.post_id = i,
                                                 !.existed = (i \in Ids(posts))]]
    /\ UNCHANGED <<posts, removed, tempFiles, up, feedPc, feed>>

\* uuid.UUID(post_id); the SELECT; if not post: raise HTTPException(404)
DeleteLookup(d) ==
    /\ del[d].pc = "lookup"
    /\ LET r == del[d]
           found == SelectById(posts, r.post_id)
       IN
       del' = [del EXCEPT ![d] =
           IF r.post_id = MalformedId
           THEN [r EXCEPT !.pc = "done",
                          !.result = DeleteError(Exc("ValueError", "badly formed UUID"))]
           ELSE IF found = {}
           THEN [r EXCEPT !.pc = "done",
                          !.result = DeleteError(HTTPException(404, "Post not found"))]
           ELSE [r EXCEPT !.pc = "commit", !.post = found]]
    /\ UNCHANGED <<posts, removed, tempFiles, up, feedPc, feed>>

\* await session.delete(post); await session.commit(); return success.
\* The flush issues DELETE FROM posts WHERE id = ?; a DELETE that matches no
\* row only warns (the mapper has no version column), and the commit succeeds
DeleteCommit(d) ==
    /\ del[d].pc = "commit"
    /\ LET r == del[d]
           matched == {p \in posts : \E q \in r.post : p.id = q.id}
       IN
       /\ posts' = posts \ matched
       /\ removed' = removed \cup Ids(matched)
       /\ del' = [del EXCEPT ![d] = [r EXCEPT !.pc = "done", !.result = DeleteSuccess,
                                              !.rowcount = Cardinality(matched)]]
    /\ UNCHANGED <<tempFiles, up, feedPc, feed>>

\* the response has been sent
DeleteRespond(d) ==
    /\ del[d].pc = "done"
    /\ del' = [del EXCEPT ![d] = IdleDel]
    /\ UNCHANGED <<posts, removed, tempFiles, up, feedPc, feed>>

----------------------------------------------------------------------------
(* get_feed *)

\* order_by(Post.created_at.desc()): a may come before b
BeforeAsc(a, b) == a.created_at <= b.created_at

Before(a, b) == a.created_at >= b.created_at

\* the result sets the SELECT can return: every row once, in an order the
\* ORDER BY allows (rows with equal created_at in any order)
Orderings(store) ==
    LET n == Cardinality(store) IN
    {s \in [1..n -> store] :
        /\ \A i, j \in 1..n : i # j => s[i] # s[j]
        /\ \A i, j \in 1..n : i < j => Before(s[i], s[j])}

\* str(post.id) and post.created_at.isoformat()
StrUuid(i) == [str |-> i]
IsoFormat(t) == [iso |-> t]

\* the dict appended to posts_data
PostView(p) ==
    [id |-> StrUuid(p.id), caption |-> p.caption, url |-> p.url,
     file_type |-> p.file_type, file_name |-> p.file_name,
     created_at |-> IsoFormat(p.created_at)]

\* the whole handler: one SELECT, then the list is built from its rows
GetFeed ==
    /\ feedPc = "idle"
    /\ \E s \in Orderings(posts) :
         feed' = [i \in 1..Cardinality(posts) |-> PostView(s[i])]
    /\ feedPc' = "done"
    /\ UNCHANGED <<posts, removed, tempFiles, up, del>>

\* the response has been sent
FeedRespond ==
    /\ feedPc = "done"
    /\ feedPc' = "idle"
    /\ feed' = <<>>
    /\ UNCHANGED <<posts, removed, tempFiles, up, del>>

----------------------------------------------------------------------------
(* The system *)

\* the tables test.db can hold at start: rows the schema admits, ids unique
PersistedStores ==
    {s \in SUBSET {PersistedRow(i, t) : i \in PostIds, t \in Times} :
        \A p, q \in s : p.id = q.id => p = q}

Init ==
    /\ posts \in PersistedStores
    /\ removed = {}
    /\ tempFiles = {}
    /\ up = IdleUp
    /\ del = [d \in Deleters |-> IdleDel]
    /\ feedPc = "idle"
    /\ feed = <<>>

\* every handler: uploads of a well-formed file, one client deleting, the feed
Next ==
    \/ UploadReceive(<<"a", ".", "j", "p", "g">>, Some(ImagePng), "hello")
    \/ UploadStage
    \/ UploadGateway
    \/ UploadPersist
    \/ UploadExcept
    \/ UploadFinally
    \/ UploadRespond
    \/ \E i \in DeleteInputs : DeleteReceive("d1", i)
    \/ DeleteLookup("d1")
    \/ DeleteCommit("d1")
    \/ DeleteRespond("d1")
    \/ GetFeed
    \/ FeedRespond

Spec == Init /\ [][Next]_vars

\* upload requests alone, over every input
NextUpload ==
    \/ \E fn \in FileNames, ct \in ContentTypes, cap \in Captions : UploadReceive(fn, ct, cap)
    \/ UploadStage
    \/ UploadGateway
    \/ UploadPersist
    \/ UploadExcept
    \/ UploadFinally
    \/ UploadRespond

SpecUpload == Init /\ [][NextUpload]_vars

\* delete requests of several clients at once, and the feed
NextDelete ==
    \/ \E d \in Deleters, i \in DeleteInputs : DeleteReceive(d, i)
    \/ \E d \in Deleters : DeleteLookup(d)
    \/ \E d \in Deleters : DeleteCommit(d)
    \/ \E d \in Deleters : DeleteRespond(d)
    \/ GetFeed
    \/ FeedRespond

SpecDelete == Init /\ [][NextDelete]_vars

----------------------------------------------------------------------------
(* Properties *)

GatewayReturned200 == up.upload_result.kind = "response" /\ up.upload_result.status = 200

\* C1: an upload with a non-empty file name and a declared content type whose
\* gateway call returns 200 with a url and a name returns a Post; the store
\* gains exactly that Post, with the gateway's url and name, the submitted
\* caption and an id the store never held.
UploadCreatesPost ==
    (up.pc = "done" /\ Len(up.filename) >= 1 /\ up.content_type # None /\ GatewayReturned200)
    => /\ up.result.status = 200
       /\ Cardinality(up.result.body) = 1
       /\ up.added = up.result.body
       /\ \A p \in up.result.body :
            /\ p.url = up.upload_result.url
            /\ p.file_name = up.upload_result.name
            /\ p.caption = up.caption
            /\ p.id \notin up.idsBefore

\* C2: an upload whose gateway call raises or returns a non-200 status, or
\* whose staging or persisting raises, ends in HTTP 500 carrying the
\* underlying message, never in a success response.
UploadFailureIsError ==
    (/\ up.pc = "done"
     /\ \/ up.upload_result.kind = "raise"
        \/ (up.upload_result.kind = "response" /\ up.upload_result.status # 200)
        \/ up.exc # NoExc)
    => /\ up.result.status = 500
       /\ up.result.body = {}
       /\ up.exc # NoExc => up.result.detail = StrOf(up.exc)

\* C3: a step of an upload request changes the set of stored rows only when
\* it is the step that makes the request succeed, and then by adding the
\* returned Post: a request that does not succeed leaves the rows as they were.
NoCommitOnFailure ==
    [][(up' # up /\ posts' # posts)
          => /\ up'.result.status = 200
             /\ up'.result.body # {}
             /\ up'.pc = "finally"
             /\ posts' = posts \cup up'.result.body]_vars

\* an upload whose INSERT was refused has ended in an error, rows still stored
NoCommitOnFailureWitness ==
    /\ up.pc = "done"
    /\ up.result.status = 500
    /\ up.exc.cls = "IntegrityError"
    /\ posts # {}

\* C4: once an upload has returned, on whatever path, no staging file is
\* left in the staging area and the inbound stream is closed.
CleanupInvariant ==
    up.pc = "done"
    => /\ tempFiles = {}
       /\ up.temp_file_path \notin tempFiles
       /\ ~up.streamOpen

\* a staging file was created, the request failed, and the file is gone
CleanupWitness ==
    /\ up.pc = "done"
    /\ up.temp_file_path # NoPath
    /\ up.exc.cls = "GatewayError"
    /\ tempFiles = {}

\* C5: deleting a stored id succeeds and removes the Post; deleting the same
\* id again fails as NotFound with HTTP 404 and without reporting success.
DeleteBoundary ==
    \A d \in Deleters :
        (del[d].pc = "done" /\ del[d].post_id # MalformedId)
        => IF del[d].post # {}
           THEN /\ del[d].result.success
                /\ del[d].result.status = 200
                /\ del[d].post_id \notin Ids(posts)
           ELSE del[d].post_id \in removed
                => /\ ~del[d].result.success
                   /\ del[d].result.status = 404

\* C6: get_feed returns exactly the stored Posts, each once, and of two
\* returned Posts with different created_at the later one comes first.
FeedOrderedComplete ==
    [][(feedPc = "idle" /\ feedPc' = "done")
          => /\ Len(feed') = Cardinality(posts)
             /\ \A p \in posts :
                  \E i \in 1..Len(feed') :
                     /\ feed'[i].id.str = p.id
                     /\ feed'[i].created_at.iso = p.created_at
                     /\ feed'[i].caption = p.caption
                     /\ feed'[i].url = p.url
                     /\ feed'[i].file_type = p.file_type
                     /\ feed'[i].file_name = p.file_name
             /\ \A i, j \in 1..Len(feed') :
                  feed'[i].created_at.iso > feed'[j].created_at.iso => i < j]_vars

\* a feed of at least two Posts of different created_at, served after a delete
FeedWitness ==
    /\ feedPc = "done"
    /\ removed # {}
    /\ Len(feed) >= 2
    /\ feed[1].created_at # feed[Len(feed)].created_at

\* C7: every stored Post has a user_id that is a row of the user table, and a
\* url, file_type and file_name that are not null.
PostsReferenceUsers ==
    \A p \in posts :
        /\ p.user_id \in Users
        /\ p.url # NULL
        /\ p.file_type # NULL
        /\ p.file_name # NULL

\* an upload built a Post without user_id and its INSERT was refused
PostsReferenceUsersWitness ==
    /\ up.pc = "except"
    /\ up.exc.cls = "IntegrityError"
    /\ \E p \in up.post : p.user_id = NULL

\* C8: the file_type of the Post an upload builds is "video" when the declared
\* content type begins with the six characters v,i,d,e,o,/ and "image"
\* otherwise, whatever the file name, caption and gateway response.
FileTypeClassification ==
    \A p \in up.post :
        LET ct == up.content_type[1]
            video == /\ Len(ct) >= 6
                     /\ ct[1] = "v" /\ ct[2] = "i" /\ ct[3] = "d"
                     /\ ct[4] = "e" /\ ct[5] = "o" /\ ct[6] = "/"
        IN  /\ video => p.file_type = "video"
            /\ ~video => p.file_type = "image"

\* an upload declared as video/mp4 built a Post
FileTypeWitness ==
    /\ up.content_type = Some(VideoMp4)
    /\ \E p \in up.post : p.file_type = "video"

\* C9: of two delete requests for the same stored Post that run at once, at
\* most one reports success, the other reports not-found, and the Post is
\* removed once.
ConcurrentDeleteOnce ==
    \A d, e \in Deleters :
        (/\ d # e
         /\ del[d].pc = "done" /\ del[e].pc = "done"
         /\ del[d].post_id = del[e].post_id
         /\ del[d].existed /\ del[e].existed)
        => /\ ~(del[d].result.success /\ del[e].result.success)
           /\ del[d].result.success \/ del[e].result.success
           /\ ~del[d].result.success => del[d].result.detail.msg = "Post not found"
           /\ ~del[e].result.success => del[e].result.detail.msg = "Post not found"
           /\ del[d].rowcount + del[e].rowcount = 1

\* C10: within one upload the steps are stage, then gateway call, then
\* insert and commit; the gateway is called at most once, and the insert is
\* attempted only after the gateway returned status 200.
UploadStepOrder ==
    /\ \E n \in 0..3 : up.trace = SubSeq(<<"stage", "gateway", "insert">>, 1, n)
    /\ Len(up.trace) = 3 => GatewayReturned200

\* an upload went through all three steps
UploadStepOrderWitness ==
    /\ up.pc = "finally"
    /\ up.trace = <<"stage", "gateway", "insert">>

====
